---- MODULE Spec2Model ----
(***************************************************************************)
(* Clinic-management backend (FastAPI + SQLAlchemy): patients, visits,     *)
(* payments.  The state is the content of the relational store; every      *)
(* request handler is one action.  Money is counted in whole currency      *)
(* units and time in whole minutes.                                        *)
(***************************************************************************)
EXTENDS Integers, Sequences, FiniteSets, TLC

VARIABLES users, patients, visits, payments, resp, sess

vars == <<users, patients, visits, payments, resp, sess>>

(***************************************************************************)
(* Bounds of the model.                                                    *)
(***************************************************************************)
MaxPatients == 2
MaxVisits == 2
MaxPayments == 2

(***************************************************************************)
(* Values of the program.                                                  *)
(***************************************************************************)
\* Python None / SQL NULL in a nullable integer or float column.
None == -999999

DEFAULT_VISIT_DURATION_MIN == 30

\* UserRole
admin == "admin"
manager == "manager"
dentist == "dentist"

\* PaymentStatus
paid == "paid"
partial == "partial"
unpaid == "unpaid"

\* VisitStatus
scheduled == "scheduled"
in_progress == "in_progress"
completed == "completed"

VisitStatus == {scheduled, in_progress, completed}

\* HTTP status codes of the responses.
OK == 200
BAD_REQUEST == 400
FORBIDDEN == 403
NOT_FOUND == 404
CONFLICT == 409
UNPROCESSABLE == 422
SERVER_ERROR == 500

\* The rows of the procedure table: id -> duration_minutes (nullable).
\* No handler of the application writes this table.
ProcedureTable == (1 :> 45) @@ (2 :> None) @@ (3 :> 0)

\* The staff registered before the clinic starts taking visits:
\* user id -> row.
Staff ==
    << [role |-> admin,   phone |-> 1, email |-> 1],
       [role |-> manager, phone |-> 2, email |-> 2],
       [role |-> dentist, phone |-> 3, email |-> 3],
       [role |-> dentist, phone |-> 4, email |-> 4] >>

Max(a, b) == IF a >= b THEN a ELSE b

\* A row that was not loaded or is not pending.
NoRow == <<>>

\* The session of a request that is not running.
Idle == [pc |-> "idle", op |-> "none", args |-> <<>>,
         visit |-> NoRow, patient |-> NoRow, pending |-> NoRow]

Sessions == {1, 2}

(***************************************************************************)
(* Store look-ups.                                                         *)
(***************************************************************************)
\* db.get(Patient, id) / db.get(Visit, id) / db.get(User, id) found a row.
HasPatient(id) == id \in 1..Len(patients)
HasVisit(id) == id \in 1..Len(visits)
HasUser(id) == id \in 1..Len(users)

\* role_required(role): the caller is a stored user with that role.
RoleRequired(caller, role) == HasUser(caller) /\ users[caller].role = role

\* Visit.procedure_id references procedure.id: the insert of a visit that
\* names a procedure the table does not hold is refused at db.commit(),
\* where IntegrityError is caught by nothing.
ProcedureMissing(procedure_id) ==
    procedure_id /= None /\ procedure_id \notin DOMAIN ProcedureTable

(***************************************************************************)
(* _get_duration_minutes                                                   *)
(***************************************************************************)
\* The same taking every duration that is given, positive or not.
GetDurationMinutes_AnyGiven(duration_minutes, procedure_id) ==
    IF duration_minutes /= None /\ duration_minutes /= 0
    THEN duration_minutes
    ELSE IF procedure_id /= None /\ procedure_id /= 0
            /\ procedure_id \in DOMAIN ProcedureTable
            /\ ProcedureTable[procedure_id] /= None
            /\ ProcedureTable[procedure_id] /= 0
         THEN ProcedureTable[procedure_id]
         ELSE DEFAULT_VISIT_DURATION_MIN

GetDurationMinutes(duration_minutes, procedure_id) ==
    IF duration_minutes /= None /\ duration_minutes /= 0 /\ duration_minutes > 0
    THEN duration_minutes
    ELSE IF procedure_id /= None /\ procedure_id /= 0
            /\ procedure_id \in DOMAIN ProcedureTable
            /\ ProcedureTable[procedure_id] /= None
            /\ ProcedureTable[procedure_id] /= 0
            /\ ProcedureTable[procedure_id] > 0
         THEN ProcedureTable[procedure_id]
         ELSE DEFAULT_VISIT_DURATION_MIN

(***************************************************************************)
(* _check_overlap: the ids of the visits of `vs` (a sequence of visit      *)
(* rows) the candidate [start_dt, end_dt) collides with; the handler       *)
(* raises 409 when there is one.                                           *)
(***************************************************************************)
\* The same with closed intervals: touching counts as a collision.
Collides_Closed(v, start_dt, end_dt) ==
    LET v_start == v.date
        v_end == v.date + GetDurationMinutes(v.duration_minutes, v.procedure_id)
    IN  start_dt <= v_end /\ end_dt >= v_start

Collides(v, start_dt, end_dt) ==
    LET v_start == v.date
        v_end == v.date + GetDurationMinutes(v.duration_minutes, v.procedure_id)
    IN  start_dt < v_end /\ end_dt > v_start

CheckOverlap(vs, dentist_id, start_dt, end_dt, exclude_visit_id) ==
    { i \in 1..Len(vs) :
        /\ vs[i].dentist_id = dentist_id
        /\ (exclude_visit_id /= None /\ exclude_visit_id /= 0
               => i /= exclude_visit_id)
        /\ Collides(vs[i], start_dt, end_dt) }

(***************************************************************************)
(* select coalesce(sum(Visit.remaining), 0) where Visit.patient_id = pid   *)
(***************************************************************************)
RECURSIVE SumRemainingUpTo(_, _, _)
SumRemainingUpTo(vs, pid, n) ==
    IF n = 0 THEN 0
    ELSE SumRemainingUpTo(vs, pid, n - 1)
         + (IF vs[n].patient_id = pid THEN vs[n].remaining ELSE 0)

SumRemaining(vs, pid) == SumRemainingUpTo(vs, pid, Len(vs))

(***************************************************************************)
(* Recomputation of the balance of a visit.                                *)
(***************************************************************************)
\* create_payment: the visit row after a payment of `amount`.
PaymentStatusAfterPayment(remaining, total) ==
    IF remaining = 0 THEN paid
    ELSE IF remaining < total THEN partial
    ELSE unpaid

\* The same without the floor at 0.
ApplyPayment_NoFloor(v, amount) ==
    LET new_paid == v.paid_amount + amount
        remaining == v.total_amount - new_paid
    IN  [v EXCEPT !.paid_amount = new_paid,
                  !.remaining = remaining,
                  !.payment_status =
                      PaymentStatusAfterPayment(remaining, v.total_amount)]

\* The same with paid_amount capped at total_amount.
ApplyPayment_Capped(v, amount) ==
    LET sum == v.paid_amount + amount
        new_paid == IF sum > v.total_amount THEN v.total_amount ELSE sum
        remaining == Max(0, v.total_amount - new_paid)
    IN  [v EXCEPT !.paid_amount = new_paid,
                  !.remaining = remaining,
                  !.payment_status =
                      PaymentStatusAfterPayment(remaining, v.total_amount)]

ApplyPayment(v, amount) ==
    LET new_paid == v.paid_amount + amount
        remaining == Max(0, v.total_amount - new_paid)
    IN  [v EXCEPT !.paid_amount = new_paid,
                  !.remaining = remaining,
                  !.payment_status =
                      PaymentStatusAfterPayment(remaining, v.total_amount)]

\* complete_visit_by_dentist: the payment status of the completed visit.
PaymentStatusAfterComplete(remaining, total) ==
    IF remaining = 0 /\ total > 0 THEN paid
    ELSE IF 0 < remaining /\ remaining < total THEN partial
    ELSE unpaid

\* The same keeping a total_amount that was already set.
ApplyComplete_KeepTotal(v, total_amount, duration_minutes) ==
    LET paid_ == IF v.paid_amount = None THEN 0 ELSE v.paid_amount
        total == IF v.total_amount = None THEN total_amount ELSE v.total_amount
        remaining == Max(0, total - paid_)
    IN  [v EXCEPT !.duration_minutes =
                      IF duration_minutes /= None THEN duration_minutes ELSE @,
                  !.total_amount = total,
                  !.remaining = remaining,
                  !.visit_status = completed,
                  !.payment_status = PaymentStatusAfterComplete(remaining, total)]

ApplyComplete(v, total_amount, duration_minutes) ==
    LET paid_ == IF v.paid_amount = None THEN 0 ELSE v.paid_amount
        total == total_amount
        remaining == Max(0, total - paid_)
    IN  [v EXCEPT !.duration_minutes =
                      IF duration_minutes /= None THEN duration_minutes ELSE @,
                  !.total_amount = total_amount,
                  !.remaining = remaining,
                  !.visit_status = completed,
                  !.payment_status = PaymentStatusAfterComplete(remaining, total)]

\* The row a visit creation inserts.
NewVisit(patient_id, dentist_id, procedure_id, duration_minutes, date, total_amount) ==
    LET paid_amount == 0
        remaining == IF total_amount /= None
                     THEN Max(0, total_amount - paid_amount) ELSE 0
    IN  [patient_id |-> patient_id,
         dentist_id |-> dentist_id,
         procedure_id |-> procedure_id,
         duration_minutes |-> duration_minutes,
         date |-> date,
         total_amount |-> total_amount,
         paid_amount |-> paid_amount,
         remaining |-> remaining,
         payment_status |-> unpaid,
         visit_status |-> scheduled]

\* The patient row after create_payment recomputed its debt over `vs`.
\* The same with has_debt true for a debt of 0 too.
RecomputeDebt_NonNegative(p, vs, pid) ==
    LET total_debt == SumRemaining(vs, pid)
    IN  [p EXCEPT !.total_debt = total_debt, !.has_debt = (total_debt >= 0)]

RecomputeDebt(p, vs, pid) ==
    LET total_debt == SumRemaining(vs, pid)
    IN  [p EXCEPT !.total_debt = total_debt, !.has_debt = (total_debt > 0)]

(***************************************************************************)
(* Request bodies the schemas accept (anything else is answered 422       *)
(* before the handler runs).                                               *)
(***************************************************************************)
\* VisitCreate: total_amount is optional and >= 0.
ValidVisitCreate(total_amount) == total_amount = None \/ total_amount >= 0

\* VisitCompleteByDentist without the ge=0 on total_amount.
ValidVisitComplete_AnyTotal(total_amount, duration_minutes) ==
    duration_minutes = None \/ duration_minutes > 0

\* VisitCompleteByDentist: total_amount >= 0, duration_minutes optional and > 0.
ValidVisitComplete(total_amount, duration_minutes) ==
    /\ total_amount >= 0
    /\ duration_minutes = None \/ duration_minutes > 0

\* PaymentCreate: amount is any number.
ValidPaymentCreate(amount) == amount \in Int

(***************************************************************************)
(* Responses.                                                              *)
(***************************************************************************)
\* What the client sent and got back: the handler, its arguments, the status.
Reply(op, args, code) == [op |-> op, args |-> args, code |-> code]

\* A request that raised: the session is closed without a commit.
Reject(op, args, code) ==
    /\ resp' = Reply(op, args, code)
    /\ UNCHANGED <<users, patients, visits, payments, sess>>

(***************************************************************************)
(* Handlers, each run to completion.                                       *)
(***************************************************************************)
create_patient ==
    /\ Len(patients) < MaxPatients
    /\ patients' = Append(patients, [total_debt |-> 0, has_debt |-> FALSE])
    /\ resp' = Reply("create_patient", <<>>, OK)
    /\ UNCHANGED <<users, visits, payments, sess>>

\* The same recomputing the debt of the patient once the visit is stored.
create_visit_by_manager_WithDebt(caller, patient_id, dentist_id, procedure_id, duration_minutes, date, total_amount) ==
    LET op == "create_visit_by_manager"
        args == <<caller, patient_id, dentist_id, procedure_id,
                  duration_minutes, date, total_amount>>
        duration == GetDurationMinutes(duration_minutes, procedure_id)
        start_dt == date
        end_dt == date + duration
        vs == Append(visits,
                  NewVisit(patient_id, dentist_id, procedure_id,
                           duration_minutes, date, total_amount))
    IN
    /\ Len(visits) < MaxVisits
    /\ IF ~RoleRequired(caller, manager) THEN Reject(op, args, FORBIDDEN)
       ELSE IF ~ValidVisitCreate(total_amount)
       THEN Reject(op, args, UNPROCESSABLE)
       ELSE IF ~HasPatient(patient_id) THEN Reject(op, args, NOT_FOUND)
       ELSE IF ~HasUser(dentist_id) \/ users[dentist_id].role /= dentist
       THEN Reject(op, args, BAD_REQUEST)
       ELSE IF CheckOverlap(visits, dentist_id, start_dt, end_dt, None) /= {}
       THEN Reject(op, args, CONFLICT)
       ELSE IF ProcedureMissing(procedure_id) THEN Reject(op, args, SERVER_ERROR)
       ELSE /\ visits' = vs
            /\ patients' = [patients EXCEPT ![patient_id] =
                               RecomputeDebt(@, vs, patient_id)]
            /\ resp' = Reply(op, args, OK)
            /\ UNCHANGED <<users, payments, sess>>

create_visit_by_manager(caller, patient_id, dentist_id, procedure_id, duration_minutes, date, total_amount) ==
    LET op == "create_visit_by_manager"
        args == <<caller, patient_id, dentist_id, procedure_id,
                  duration_minutes, date, total_amount>>
        duration == GetDurationMinutes(duration_minutes, procedure_id)
        start_dt == date
        end_dt == date + duration
    IN
    /\ Len(visits) < MaxVisits
    /\ IF ~RoleRequired(caller, manager) THEN Reject(op, args, FORBIDDEN)
       ELSE IF ~ValidVisitCreate(total_amount)
       THEN Reject(op, args, UNPROCESSABLE)
       ELSE IF ~HasPatient(patient_id) THEN Reject(op, args, NOT_FOUND)
       ELSE IF ~HasUser(dentist_id) \/ users[dentist_id].role /= dentist
       THEN Reject(op, args, BAD_REQUEST)
       ELSE IF CheckOverlap(visits, dentist_id, start_dt, end_dt, None) /= {}
       THEN Reject(op, args, CONFLICT)
       ELSE IF ProcedureMissing(procedure_id) THEN Reject(op, args, SERVER_ERROR)
       ELSE /\ visits' = Append(visits,
                   NewVisit(patient_id, dentist_id, procedure_id,
                            duration_minutes, date, total_amount))
            /\ resp' = Reply(op, args, OK)
            /\ UNCHANGED <<users, patients, payments, sess>>

\* The same storing a total_amount of 0 where the price is not known yet.
create_visit_by_dentist_ZeroTotal(caller, patient_id, procedure_id, duration_minutes, date) ==
    LET op == "create_visit_by_dentist"
        args == <<caller, patient_id, procedure_id, duration_minutes, date>>
        duration == GetDurationMinutes(duration_minutes, procedure_id)
        start_dt == date
        end_dt == date + duration
    IN
    /\ Len(visits) < MaxVisits
    /\ IF ~RoleRequired(caller, dentist) THEN Reject(op, args, FORBIDDEN)
       ELSE IF ~HasPatient(patient_id) THEN Reject(op, args, NOT_FOUND)
       ELSE IF CheckOverlap(visits, caller, start_dt, end_dt, None) /= {}
       THEN Reject(op, args, CONFLICT)
       ELSE IF ProcedureMissing(procedure_id) THEN Reject(op, args, SERVER_ERROR)
       ELSE /\ visits' = Append(visits,
                   NewVisit(patient_id, caller, procedure_id,
                            duration_minutes, date, 0))
            /\ resp' = Reply(op, args, OK)
            /\ UNCHANGED <<users, patients, payments, sess>>

create_visit_by_dentist(caller, patient_id, procedure_id, duration_minutes, date) ==
    LET op == "create_visit_by_dentist"
        args == <<caller, patient_id, procedure_id, duration_minutes, date>>
        duration == GetDurationMinutes(duration_minutes, procedure_id)
        start_dt == date
        end_dt == date + duration
    IN
    /\ Len(visits) < MaxVisits
    /\ IF ~RoleRequired(caller, dentist) THEN Reject(op, args, FORBIDDEN)
       ELSE IF ~HasPatient(patient_id) THEN Reject(op, args, NOT_FOUND)
       ELSE IF CheckOverlap(visits, caller, start_dt, end_dt, None) /= {}
       THEN Reject(op, args, CONFLICT)
       ELSE IF ProcedureMissing(procedure_id) THEN Reject(op, args, SERVER_ERROR)
       ELSE /\ visits' = Append(visits,
                   NewVisit(patient_id, caller, procedure_id,
                            duration_minutes, date, None))
            /\ resp' = Reply(op, args, OK)
            /\ UNCHANGED <<users, patients, payments, sess>>

complete_visit_by_dentist(caller, visit_id, total_amount, duration_minutes) ==
    LET op == "complete_visit_by_dentist"
        args == <<caller, visit_id, total_amount, duration_minutes>>
    IN
    IF ~RoleRequired(caller, dentist) THEN Reject(op, args, FORBIDDEN)
    ELSE IF ~ValidVisitComplete(total_amount, duration_minutes)
    THEN Reject(op, args, UNPROCESSABLE)
    ELSE IF ~HasVisit(visit_id) THEN Reject(op, args, NOT_FOUND)
    ELSE IF visits[visit_id].dentist_id /= caller THEN Reject(op, args, FORBIDDEN)
    ELSE IF duration_minutes /= None /\ duration_minutes <= 0
    THEN Reject(op, args, BAD_REQUEST)
    ELSE IF total_amount < 0 THEN Reject(op, args, BAD_REQUEST)
    ELSE /\ visits' = [visits EXCEPT ![visit_id] =
                          ApplyComplete(@, total_amount, duration_minutes)]
         /\ resp' = Reply(op, args, OK)
         /\ UNCHANGED <<users, patients, payments, sess>>

\* The same without the ownership rule for dentists.
update_visit_status_AnyDentist(caller, visit_id, visit_status) ==
    LET op == "update_visit_status"
        args == <<caller, visit_id, visit_status>>
    IN
    /\ HasUser(caller)
    /\ IF ~HasVisit(visit_id) THEN Reject(op, args, NOT_FOUND)
       ELSE /\ visits' = [visits EXCEPT ![visit_id].visit_status = visit_status]
            /\ resp' = Reply(op, args, OK)
            /\ UNCHANGED <<users, patients, payments, sess>>

update_visit_status(caller, visit_id, visit_status) ==
    LET op == "update_visit_status"
        args == <<caller, visit_id, visit_status>>
    IN
    /\ HasUser(caller)
    /\ IF ~HasVisit(visit_id) THEN Reject(op, args, NOT_FOUND)
       ELSE IF users[caller].role = dentist /\ visits[visit_id].dentist_id /= caller
       THEN Reject(op, args, FORBIDDEN)
       ELSE /\ visits' = [visits EXCEPT ![visit_id].visit_status = visit_status]
            /\ resp' = Reply(op, args, OK)
            /\ UNCHANGED <<users, patients, payments, sess>>

\* The same adding the amount to the Payment row the visit already has.
create_payment_Merge(caller, visit_id, patient_id, amount) ==
    LET op == "create_payment"
        args == <<caller, visit_id, patient_id, amount>>
        same == {i \in DOMAIN payments : payments[i].visit_id = visit_id}
    IN
    /\ Len(payments) < MaxPayments
    /\ IF ~RoleRequired(caller, manager) THEN Reject(op, args, FORBIDDEN)
       ELSE IF ~ValidPaymentCreate(amount) THEN Reject(op, args, UNPROCESSABLE)
       ELSE IF ~HasVisit(visit_id) THEN Reject(op, args, NOT_FOUND)
       ELSE IF ~HasPatient(patient_id) THEN Reject(op, args, NOT_FOUND)
       ELSE IF visits[visit_id].total_amount = None
       THEN Reject(op, args, SERVER_ERROR)
       ELSE LET vs == [visits EXCEPT ![visit_id] = ApplyPayment(@, amount)] IN
            /\ payments' =
                   IF same = {}
                   THEN Append(payments,
                          [visit_id |-> visit_id, patient_id |-> patient_id,
                           amount |-> amount])
                   ELSE LET i == CHOOSE i \in same : TRUE
                        IN  [payments EXCEPT ![i].amount = @ + amount]
            /\ visits' = vs
            /\ patients' = [patients EXCEPT ![patient_id] =
                               RecomputeDebt(@, vs, patient_id)]
            /\ resp' = Reply(op, args, OK)
            /\ UNCHANGED <<users, sess>>

\* The same summing the remaining amounts before the visit is updated.
create_payment_StaleSum(caller, visit_id, patient_id, amount) ==
    LET op == "create_payment"
        args == <<caller, visit_id, patient_id, amount>>
    IN
    /\ Len(payments) < MaxPayments
    /\ IF ~RoleRequired(caller, manager) THEN Reject(op, args, FORBIDDEN)
       ELSE IF ~ValidPaymentCreate(amount) THEN Reject(op, args, UNPROCESSABLE)
       ELSE IF ~HasVisit(visit_id) THEN Reject(op, args, NOT_FOUND)
       ELSE IF ~HasPatient(patient_id) THEN Reject(op, args, NOT_FOUND)
       ELSE IF visits[visit_id].total_amount = None
       THEN Reject(op, args, SERVER_ERROR)
       ELSE LET vs == [visits EXCEPT ![visit_id] = ApplyPayment(@, amount)] IN
            /\ payments' = Append(payments,
                   [visit_id |-> visit_id, patient_id |-> patient_id,
                    amount |-> amount])
            /\ visits' = vs
            /\ patients' = [patients EXCEPT ![patient_id] =
                               RecomputeDebt(@, visits, patient_id)]
            /\ resp' = Reply(op, args, OK)
            /\ UNCHANGED <<users, sess>>

create_payment(caller, visit_id, patient_id, amount) ==
    LET op == "create_payment"
        args == <<caller, visit_id, patient_id, amount>>
    IN
    /\ Len(payments) < MaxPayments
    /\ IF ~RoleRequired(caller, manager) THEN Reject(op, args, FORBIDDEN)
       ELSE IF ~ValidPaymentCreate(amount) THEN Reject(op, args, UNPROCESSABLE)
       ELSE IF ~HasVisit(visit_id) THEN Reject(op, args, NOT_FOUND)
       ELSE IF ~HasPatient(patient_id) THEN Reject(op, args, NOT_FOUND)
       ELSE IF visits[visit_id].total_amount = None
       THEN Reject(op, args, SERVER_ERROR)
       ELSE LET vs == [visits EXCEPT ![visit_id] = ApplyPayment(@, amount)] IN
            /\ payments' = Append(payments,
                   [visit_id |-> visit_id, patient_id |-> patient_id,
                    amount |-> amount])
            /\ visits' = vs
            /\ patients' = [patients EXCEPT ![patient_id] =
                               RecomputeDebt(@, vs, patient_id)]
            /\ resp' = Reply(op, args, OK)
            /\ UNCHANGED <<users, sess>>

(***************************************************************************)
(* The same handlers step by step, for requests that run at the same time. *)
(* A request runs in a session of its own (get_db); a step is what the     *)
(* handler does from one await on the database to the next.  A read sees   *)
(* the rows committed at that moment; what the session writes reaches the  *)
(* store at its commit, and a session closed without a commit leaves       *)
(* nothing.  The engine is created without an isolation level, so the      *)
(* database runs the sessions at its default one.                          *)
(***************************************************************************)
Running(s) == sess[s].pc /= "idle"
AllIdle == \A s \in Sessions : ~Running(s)

\* The requests in flight that will insert a row of that handler.
InFlight(op) == Cardinality({s \in Sessions : Running(s) /\ sess[s].op = op})

\* The session ends without a commit and the client gets `code`.
Close(s, code) ==
    /\ resp' = Reply(sess[s].op, sess[s].args, code)
    /\ sess' = [sess EXCEPT ![s] = Idle]
    /\ UNCHANGED <<users, patients, visits, payments>>

\* The unit of work's UPDATE: the columns the session changed on the
\* object it loaded are written over the stored row, the others are left.
WriteChanged(row, loaded, computed) ==
    [f \in DOMAIN row |-> IF computed[f] /= loaded[f] THEN computed[f] ELSE row[f]]

\* visit = await db.get(Visit, data.visit_id)
pay_get_visit(s, caller, visit_id, patient_id, amount) ==
    LET op == "create_payment"
        args == <<caller, visit_id, patient_id, amount>>
    IN
    /\ ~Running(s)
    /\ Len(payments) + InFlight(op) < MaxPayments
    /\ IF ~RoleRequired(caller, manager) THEN Reject(op, args, FORBIDDEN)
       ELSE IF ~ValidPaymentCreate(amount) THEN Reject(op, args, UNPROCESSABLE)
       ELSE IF ~HasVisit(visit_id) THEN Reject(op, args, NOT_FOUND)
       ELSE /\ sess' = [sess EXCEPT ![s] =
                   [pc |-> "got_visit", op |-> op, args |-> args,
                    visit |-> visits[visit_id], patient |-> NoRow,
                    pending |-> NoRow]]
            /\ UNCHANGED <<users, patients, visits, payments, resp>>

\* patient = await db.get(Patient, data.patient_id)
pay_get_patient(s) ==
    LET patient_id == sess[s].args[3] IN
    /\ sess[s].pc = "got_visit"
    /\ IF ~HasPatient(patient_id) THEN Close(s, NOT_FOUND)
       ELSE /\ sess' = [sess EXCEPT ![s].pc = "got_patient",
                                    ![s].patient = patients[patient_id]]
            /\ UNCHANGED <<users, patients, visits, payments, resp>>

\* The visit rows a session's statement sees: the committed ones, with the
\* session's own unflushed or uncommitted change of its visit.
SessionView(visit_id, loaded, computed) ==
    [visits EXCEPT ![visit_id] = WriteChanged(@, loaded, computed)]

\* Another session has written the visit row and not committed yet.
RowLocked(s, visit_id) ==
    \E o \in Sessions \ {s} :
        /\ sess[o].pc = "flushed"
        /\ sess[o].op = "create_payment"
        /\ sess[o].args[2] = visit_id

\* The same with the Payment row committed as soon as it is added: when
\* the recomputation then raises, the row stays in the store.
pay_flush_autocommit(s) ==
    LET visit_id == sess[s].args[2]
        patient_id == sess[s].args[3]
        amount == sess[s].args[4]
        loaded == sess[s].visit
    IN
    /\ sess[s].pc = "got_patient"
    /\ IF loaded.total_amount = None
       THEN /\ payments' = Append(payments,
                   [visit_id |-> visit_id, patient_id |-> patient_id,
                    amount |-> amount])
            /\ resp' = Reply(sess[s].op, sess[s].args, SERVER_ERROR)
            /\ sess' = [sess EXCEPT ![s] = Idle]
            /\ UNCHANGED <<users, patients, visits>>
       ELSE LET computed == ApplyPayment(loaded, amount)
                vs == SessionView(visit_id, loaded, computed)
            IN  /\ ~RowLocked(s, visit_id)
                /\ sess' = [sess EXCEPT
                       ![s].pc = "flushed",
                       ![s].pending =
                           [payment |-> [visit_id |-> visit_id,
                                         patient_id |-> patient_id,
                                         amount |-> amount],
                            visit |-> computed,
                            patient |-> RecomputeDebt(sess[s].patient, vs, patient_id)]]
                /\ UNCHANGED <<users, patients, visits, payments, resp>>

\* db.add(payment), the new amounts of the loaded visit, and
\* await db.execute(select sum ...), which first flushes both.
pay_flush(s) ==
    LET visit_id == sess[s].args[2]
        patient_id == sess[s].args[3]
        amount == sess[s].args[4]
        loaded == sess[s].visit
    IN
    /\ sess[s].pc = "got_patient"
    /\ IF loaded.total_amount = None THEN Close(s, SERVER_ERROR)
       ELSE LET computed == ApplyPayment(loaded, amount)
                vs == SessionView(visit_id, loaded, computed)
            IN  /\ ~RowLocked(s, visit_id)
                /\ sess' = [sess EXCEPT
                       ![s].pc = "flushed",
                       ![s].pending =
                           [payment |-> [visit_id |-> visit_id,
                                         patient_id |-> patient_id,
                                         amount |-> amount],
                            visit |-> computed,
                            patient |-> RecomputeDebt(sess[s].patient, vs, patient_id)]]
                /\ UNCHANGED <<users, patients, visits, payments, resp>>

\* await db.commit()
pay_commit(s) ==
    LET visit_id == sess[s].args[2]
        patient_id == sess[s].args[3]
        pending == sess[s].pending
    IN
    /\ sess[s].pc = "flushed"
    /\ sess[s].op = "create_payment"
    /\ payments' = Append(payments, pending.payment)
    /\ visits' = [visits EXCEPT ![visit_id] =
                      WriteChanged(@, sess[s].visit, pending.visit)]
    /\ patients' = [patients EXCEPT ![patient_id] =
                        WriteChanged(@, sess[s].patient, pending.patient)]
    /\ resp' = Reply(sess[s].op, sess[s].args, OK)
    /\ sess' = [sess EXCEPT ![s] = Idle]
    /\ UNCHANGED users

\* An await on the database raises (the connection drops, a statement
\* fails): the handler is left by the exception and get_db closes the
\* session.
fail(s) ==
    /\ Running(s)
    /\ Close(s, SERVER_ERROR)

\* create_visit_by_dentist up to and including _check_overlap.
visit_by_dentist_check(s, caller, patient_id, procedure_id, duration_minutes, date) ==
    LET op == "create_visit_by_dentist"
        args == <<caller, patient_id, procedure_id, duration_minutes, date>>
        duration == GetDurationMinutes(duration_minutes, procedure_id)
        start_dt == date
        end_dt == date + duration
    IN
    /\ ~Running(s)
    /\ Len(visits) + InFlight(op) + InFlight("create_visit_by_manager") < MaxVisits
    /\ IF ~RoleRequired(caller, dentist) THEN Reject(op, args, FORBIDDEN)
       ELSE IF ~HasPatient(patient_id) THEN Reject(op, args, NOT_FOUND)
       ELSE IF CheckOverlap(visits, caller, start_dt, end_dt, None) /= {}
       THEN Reject(op, args, CONFLICT)
       ELSE /\ sess' = [sess EXCEPT ![s] =
                   [pc |-> "checked", op |-> op, args |-> args,
                    visit |-> NoRow, patient |-> NoRow,
                    pending |-> NewVisit(patient_id, caller, procedure_id,
                                         duration_minutes, date, None)]]
            /\ UNCHANGED <<users, patients, visits, payments, resp>>

\* create_visit_by_manager up to and including _check_overlap.
visit_by_manager_check(s, caller, patient_id, dentist_id, procedure_id, duration_minutes, date, total_amount) ==
    LET op == "create_visit_by_manager"
        args == <<caller, patient_id, dentist_id, procedure_id,
                  duration_minutes, date, total_amount>>
        duration == GetDurationMinutes(duration_minutes, procedure_id)
        start_dt == date
        end_dt == date + duration
    IN
    /\ ~Running(s)
    /\ Len(visits) + InFlight(op) + InFlight("create_visit_by_dentist") < MaxVisits
    /\ IF ~RoleRequired(caller, manager) THEN Reject(op, args, FORBIDDEN)
       ELSE IF ~ValidVisitCreate(total_amount)
       THEN Reject(op, args, UNPROCESSABLE)
       ELSE IF ~HasPatient(patient_id) THEN Reject(op, args, NOT_FOUND)
       ELSE IF ~HasUser(dentist_id) \/ users[dentist_id].role /= dentist
       THEN Reject(op, args, BAD_REQUEST)
       ELSE IF CheckOverlap(visits, dentist_id, start_dt, end_dt, None) /= {}
       THEN Reject(op, args, CONFLICT)
       ELSE /\ sess' = [sess EXCEPT ![s] =
                   [pc |-> "checked", op |-> op, args |-> args,
                    visit |-> NoRow, patient |-> NoRow,
                    pending |-> NewVisit(patient_id, dentist_id, procedure_id,
                                         duration_minutes, date, total_amount)]]
            /\ UNCHANGED <<users, patients, visits, payments, resp>>

\* db.add(visit); await db.commit()
visit_commit(s) ==
    /\ sess[s].pc = "checked"
    /\ sess[s].op \in {"create_visit_by_dentist", "create_visit_by_manager"}
    /\ IF ProcedureMissing(sess[s].pending.procedure_id)
       THEN Close(s, SERVER_ERROR)
       ELSE /\ visits' = Append(visits, sess[s].pending)
            /\ resp' = Reply(sess[s].op, sess[s].args, OK)
            /\ sess' = [sess EXCEPT ![s] = Idle]
            /\ UNCHANGED <<users, patients, payments>>

(***************************************************************************)
(* Registration.                                                           *)
(***************************************************************************)
\* select(User).where(User.phone == data.phone) found a row.
PhoneTaken(us, phone) == \E i \in DOMAIN us : us[i].phone = phone

\* The unique indexes of the user table on phone and on email refuse the
\* insert of the row u.
UniqueViolation(us, u) ==
    \E i \in DOMAIN us : us[i].phone = u.phone \/ us[i].email = u.email

\* The row register_user inserts.
NewUser(phone, email, role) == [role |-> role, phone |-> phone, email |-> email]

\* register_user run to completion: the insert is sent at db.commit(), where
\* a refused insert raises IntegrityError, which nothing catches.
register_user(phone, email, role) ==
    LET op == "register_user"
        args == <<phone, email, role>>
    IN
    IF PhoneTaken(users, phone) THEN Reject(op, args, BAD_REQUEST)
    ELSE IF UniqueViolation(users, NewUser(phone, email, role))
    THEN Reject(op, args, SERVER_ERROR)
    ELSE /\ users' = Append(users, NewUser(phone, email, role))
         /\ resp' = Reply(op, args, OK)
         /\ UNCHANGED <<patients, visits, payments, sess>>

\* register_user up to and including the select by phone.
reg_check(s, phone, email, role) ==
    LET op == "register_user"
        args == <<phone, email, role>>
    IN
    /\ ~Running(s)
    /\ IF PhoneTaken(users, phone) THEN Reject(op, args, BAD_REQUEST)
       ELSE /\ sess' = [sess EXCEPT ![s] =
                   [pc |-> "checked", op |-> op, args |-> args,
                    visit |-> NoRow, patient |-> NoRow,
                    pending |-> NewUser(phone, email, role)]]
            /\ UNCHANGED <<users, patients, visits, payments, resp>>

\* db.add(user); await db.commit()
reg_commit(s) ==
    /\ sess[s].pc = "checked"
    /\ sess[s].op = "register_user"
    /\ IF UniqueViolation(users, sess[s].pending)
       THEN Close(s, SERVER_ERROR)
       ELSE /\ users' = Append(users, sess[s].pending)
            /\ resp' = Reply(sess[s].op, sess[s].args, OK)
            /\ sess' = [sess EXCEPT ![s] = Idle]
            /\ UNCHANGED <<patients, visits, payments>>

(***************************************************************************)
(* Dashboards.  The sums over the payment table they select are inputs:    *)
(* the model keeps no clock and no payment dates.  A float is kept exact,  *)
(* as the fraction num/den.                                                *)
(***************************************************************************)
Rat(n) == [num |-> n, den |-> 1]
RatDiv(a, b) == [num |-> a.num * b.den, den |-> a.den * b.num]
RatMul(a, b) == [num |-> a.num * b.num, den |-> a.den * b.den]

\* admin_dashboard: percent_change
AdminPercentChange(prev_month_income, income_month) ==
    IF prev_month_income = 0
    THEN IF income_month /= 0 /\ income_month > 0 THEN Rat(100) ELSE Rat(0)
    ELSE RatMul(RatDiv(Rat(income_month - prev_month_income),
                       Rat(prev_month_income)),
                Rat(100))

\* The same taking any income that is not 0 for a positive one.
DentistPercentChange_NoSign(prev_month_income, income_month) ==
    IF prev_month_income = 0
    THEN IF income_month /= 0 THEN Rat(100) ELSE Rat(0)
    ELSE RatMul(RatDiv(Rat(income_month - prev_month_income),
                       Rat(prev_month_income)),
                Rat(100))

\* dentist_dashboard: percent_change
DentistPercentChange(prev_month_income, income_month) ==
    IF prev_month_income = 0
    THEN IF income_month /= 0 /\ income_month > 0 THEN Rat(100) ELSE Rat(0)
    ELSE RatMul(RatDiv(Rat(income_month - prev_month_income),
                       Rat(prev_month_income)),
                Rat(100))

\* A response with a body.
ReplyBody(op, args, code, body) ==
    [op |-> op, args |-> args, code |-> code, body |-> body]

\* admin_dashboard up to and including its last select.
admin_dashboard_read(s, caller, income_month, prev_month_income) ==
    LET op == "admin_dashboard"
        args == <<caller>>
    IN
    /\ ~Running(s)
    /\ IF ~RoleRequired(caller, admin) THEN Reject(op, args, FORBIDDEN)
       ELSE /\ sess' = [sess EXCEPT ![s] =
                   [pc |-> "read", op |-> op, args |-> args,
                    visit |-> NoRow, patient |-> NoRow,
                    pending |-> [income_month |-> income_month,
                                 prev_month_income |-> prev_month_income,
                                 listed |-> TRUE]]]
            /\ UNCHANGED <<users, patients, visits, payments, resp>>

\* dentist_dashboard up to and including its last select.  `listed` says
\* whether the dentist's visits of today all have the procedure name and
\* the total_amount that DentistActiveVisit and VisitShort require.
dentist_dashboard_read(s, caller, income_month, prev_month_income, listed) ==
    LET op == "dentist_dashboard"
        args == <<caller>>
    IN
    /\ ~Running(s)
    /\ IF ~RoleRequired(caller, dentist) THEN Reject(op, args, FORBIDDEN)
       ELSE /\ sess' = [sess EXCEPT ![s] =
                   [pc |-> "read", op |-> op, args |-> args,
                    visit |-> NoRow, patient |-> NoRow,
                    pending |-> [income_month |-> income_month,
                                 prev_month_income |-> prev_month_income,
                                 listed |-> listed]]]
            /\ UNCHANGED <<users, patients, visits, payments, resp>>

\* admin_dashboard from the percent change to the response.
admin_dashboard_reply(s) ==
    LET read == sess[s].pending IN
    /\ sess[s].pc = "read"
    /\ sess[s].op = "admin_dashboard"
    /\ resp' = ReplyBody(sess[s].op, sess[s].args, OK,
                   [incomeMonth |-> read.income_month,
                    percentChange |->
                        AdminPercentChange(read.prev_month_income,
                                           read.income_month)])
    /\ sess' = [sess EXCEPT ![s] = Idle]
    /\ UNCHANGED <<users, patients, visits, payments>>

\* dentist_dashboard from the percent change to the response.
dentist_dashboard_reply(s) ==
    LET read == sess[s].pending IN
    /\ sess[s].pc = "read"
    /\ sess[s].op = "dentist_dashboard"
    /\ IF ~read.listed
       THEN /\ resp' = ReplyBody(sess[s].op, sess[s].args, SERVER_ERROR, NoRow)
            /\ sess' = [sess EXCEPT ![s] = Idle]
            /\ UNCHANGED <<users, patients, visits, payments>>
       ELSE /\ resp' = ReplyBody(sess[s].op, sess[s].args, OK,
                           [incomeMonth |-> read.income_month,
                            percentChange |->
                                DentistPercentChange(read.prev_month_income,
                                                     read.income_month)])
            /\ sess' = [sess EXCEPT ![s] = Idle]
            /\ UNCHANGED <<users, patients, visits, payments>>

(***************************************************************************)
(* The requests the model sends.                                           *)
(***************************************************************************)
UserIds == 1..Len(Staff)
Dentists == {3, 4}
\* One id past the stored rows: a row that does not exist.
PatientIds == 1..(MaxPatients + 1)
VisitIds == 1..(MaxVisits + 1)

Init ==
    /\ users = Staff
    /\ patients = <<>>
    /\ visits = <<>>
    /\ payments = <<>>
    /\ resp = Reply("none", <<>>, OK)
    /\ sess = [s \in Sessions |-> Idle]

(***************************************************************************)
(* Spec: the ledger.  One dentist's diary with slots that never collide,   *)
(* every amount the handlers accept.                                       *)
(***************************************************************************)
LedgerTotals == {None, 0, 100}
LedgerAmounts == {-30, 30, 100}
LedgerDates == {0, 30}

Next ==
    \/ create_patient
    \/ \E p \in DOMAIN patients, t \in LedgerDates, a \in LedgerTotals :
          create_visit_by_manager(2, p, 3, None, None, t, a)
    \/ \E p \in DOMAIN patients, t \in LedgerDates :
          create_visit_by_dentist(3, p, None, None, t)
    \/ \E v \in DOMAIN visits, a \in {0, 100} :
          complete_visit_by_dentist(3, v, a, None)
    \/ \E v \in DOMAIN visits :
          update_visit_status(2, v, in_progress)
    \/ \E v \in DOMAIN visits, p \in DOMAIN patients, a \in LedgerAmounts :
          create_payment(2, v, p, a)

Spec == Init /\ [][Next]_vars

(***************************************************************************)
(* Balance of a visit.                                                     *)
(***************************************************************************)
TotalOrZero(v) == IF v.total_amount = None THEN 0 ELSE v.total_amount

\* C1: every stored visit has remaining = max(0, total_amount - paid_amount),
\* a null total_amount counting as 0.
C1_RemainingIsFlooredDifference ==
    \A i \in DOMAIN visits :
        LET d == TotalOrZero(visits[i]) - visits[i].paid_amount IN
        visits[i].remaining = (IF d > 0 THEN d ELSE 0)

\* A visit paid beyond its price and then completed, next to a visit
\* without a price.
C1_Witness ==
    /\ \E i \in DOMAIN visits :
          /\ visits[i].visit_status = completed
          /\ visits[i].total_amount = 100
          /\ visits[i].paid_amount = 130
          /\ visits[i].remaining = 0
    /\ \E i \in DOMAIN visits :
          /\ visits[i].total_amount = None
          /\ visits[i].remaining = 0

\* C2: every stored visit's payment_status is the three-way split of its
\* amounts: paid when total_amount > 0 and remaining = 0, partial when
\* 0 < remaining < total_amount, unpaid otherwise.
C2_StatusMatchesSplit ==
    \A i \in DOMAIN visits :
        LET v == visits[i] IN
        v.payment_status =
            (IF v.total_amount /= None /\ v.total_amount > 0 /\ v.remaining = 0
             THEN paid
             ELSE IF v.total_amount /= None
                     /\ 0 < v.remaining /\ v.remaining < v.total_amount
             THEN partial
             ELSE unpaid)

(***************************************************************************)
(* Debt of a patient.                                                      *)
(***************************************************************************)
\* C3: every patient's total_debt is the sum of remaining over the
\* patient's visits.
C3_DebtIsSumOfRemaining ==
    \A p \in DOMAIN patients :
        patients[p].total_debt = SumRemaining(visits, p)

\* C4: every patient's has_debt is true exactly when total_debt > 0.
C4_HasDebtIffPositiveDebt ==
    \A p \in DOMAIN patients :
        patients[p].has_debt <=> (patients[p].total_debt > 0)

\* A patient in debt next to a patient whose debt a payment brought to 0.
C4_Witness ==
    /\ \E p \in DOMAIN patients :
          patients[p].has_debt /\ patients[p].total_debt = 70
    /\ \E p \in DOMAIN patients, k \in DOMAIN payments :
          /\ payments[k].patient_id = p
          /\ ~patients[p].has_debt
          /\ patients[p].total_debt = 0

(***************************************************************************)
(* Payment application.                                                    *)
(***************************************************************************)
\* C7: a successful create_payment of amount A on a visit with total T and
\* paid P leaves paid_amount = P + A (not capped at T),
\* remaining = max(0, T - (P + A)), and payment_status = paid when that
\* remaining is 0.
C7_PaymentApplied ==
    [][Len(payments') = Len(payments) + 1 =>
        LET pay == payments'[Len(payments')]
            old == visits[pay.visit_id]
            new == visits'[pay.visit_id]
            due == old.total_amount - (old.paid_amount + pay.amount)
        IN  /\ new.paid_amount = old.paid_amount + pay.amount
            /\ new.total_amount = old.total_amount
            /\ new.remaining = (IF due > 0 THEN due ELSE 0)
            /\ (due <= 0 => new.payment_status = paid)]_vars

\* The payment of 100 on a visit of total 100 that had 30 paid.
C7_Witness ==
    /\ resp.op = "create_payment" /\ resp.code = OK /\ resp.args[4] = 100
    /\ LET v == visits[resp.args[2]] IN
        /\ v.total_amount = 100
        /\ v.paid_amount = 130
        /\ v.remaining = 0
        /\ v.payment_status = paid

(***************************************************************************)
(* SpecSchedule: the diaries of two dentists.  Slots that collide, touch   *)
(* or are apart, durations given, inherited from the procedure or          *)
(* defaulted; no prices.                                                   *)
(***************************************************************************)
ScheduleDates == {0, 30}
ScheduleDurations == {None, 15}
ScheduleProcedures == {None, 1}
CompleteDurations == {None, 60}

ScheduleNext ==
    \/ create_patient
    \/ \E d \in Dentists, pr \in ScheduleProcedures, du \in ScheduleDurations, t \in ScheduleDates :
          create_visit_by_manager(2, 1, d, pr, du, t, None)
    \/ \E c \in Dentists, pr \in ScheduleProcedures, du \in ScheduleDurations, t \in ScheduleDates :
          create_visit_by_dentist(c, 1, pr, du, t)
    \/ \E c \in Dentists, v \in DOMAIN visits, du \in CompleteDurations :
          complete_visit_by_dentist(c, v, 0, du)
    \/ \E v \in DOMAIN visits :
          update_visit_status(2, v, in_progress)

SpecSchedule == Init /\ [][ScheduleNext]_vars

\* The interval [VisitStart(v), VisitEnd(v)) a stored visit occupies.
VisitStart(v) == v.date
VisitEnd(v) == v.date + GetDurationMinutes(v.duration_minutes, v.procedure_id)

\* C5: no two stored visits of the same dentist occupy overlapping
\* intervals [date, date + effective duration).
C5_NoOverlapPerDentist ==
    \A i, j \in DOMAIN visits :
        (i < j /\ visits[i].dentist_id = visits[j].dentist_id)
            => ~(/\ VisitStart(visits[i]) < VisitEnd(visits[j])
                 /\ VisitStart(visits[j]) < VisitEnd(visits[i]))

\* The last request was a visit creation that got as far as the overlap
\* check: the caller has the role, the patient exists, the dentist is one.
CreationChecked(r) ==
    \/ /\ r.op = "create_visit_by_manager"
       /\ r.args[2] \in DOMAIN patients
       /\ r.args[3] \in DOMAIN users /\ users[r.args[3]].role = dentist
    \/ /\ r.op = "create_visit_by_dentist"
       /\ r.args[2] \in DOMAIN patients

\* The candidate of a creation request: dentist, start, end.
CandidateDentist(r) ==
    IF r.op = "create_visit_by_manager" THEN r.args[3] ELSE r.args[1]
CandidateStart(r) ==
    IF r.op = "create_visit_by_manager" THEN r.args[6] ELSE r.args[5]
CandidateEnd(r) ==
    IF r.op = "create_visit_by_manager"
    THEN r.args[6] + GetDurationMinutes(r.args[5], r.args[4])
    ELSE r.args[5] + GetDurationMinutes(r.args[4], r.args[3])

\* C6: a visit creation for dentist D with candidate [s, e) is answered
\* with a conflict, leaving the store unchanged, exactly when some stored
\* visit of D has s < its end and e > its start; otherwise the visit is
\* stored.  Visits of other dentists and intervals that only touch do not
\* count.
C6_RejectedIffOverlap ==
    [][CreationChecked(resp') =>
        LET D == CandidateDentist(resp')
            s == CandidateStart(resp')
            e == CandidateEnd(resp')
            hit == \E i \in DOMAIN visits :
                      /\ visits[i].dentist_id = D
                      /\ s < VisitEnd(visits[i])
                      /\ e > VisitStart(visits[i])
        IN  /\ resp'.code \in {OK, CONFLICT}
            /\ resp'.code = CONFLICT <=> hit
            /\ resp'.code = CONFLICT =>
                   visits' = visits /\ patients' = patients /\ payments' = payments
            /\ resp'.code = OK =>
                   /\ Len(visits') = Len(visits) + 1
                   /\ SubSeq(visits', 1, Len(visits)) = visits
                   /\ visits'[Len(visits')].dentist_id = D
                   /\ visits'[Len(visits')].date = s]_vars

\* A creation rejected although the other dentist's diary is free at that
\* time, after a creation that touches the stored visit was accepted.
C6_Witness ==
    /\ resp.op = "create_visit_by_dentist" /\ resp.code = CONFLICT
    /\ Len(visits) = 1
    /\ visits[1].dentist_id = resp.args[1]
    /\ resp.args[5] = 0 /\ visits[1].date = 0

(***************************************************************************)
(* SpecTxn: one payment request at a time, step by step, that may fail at  *)
(* any step.                                                               *)
(***************************************************************************)
TxnAmounts == {30, 100}
TxnTotals == {None, 100}

TxnNext ==
    \/ AllIdle /\ create_patient
    \/ AllIdle /\ \E p \in DOMAIN patients, t \in LedgerDates, a \in TxnTotals :
          create_visit_by_manager(2, p, 3, None, None, t, a)
    \/ \E v \in VisitIds, p \in PatientIds, a \in TxnAmounts :
          pay_get_visit(1, 2, v, p, a)
    \/ pay_get_patient(1)
    \/ pay_flush(1)
    \/ pay_commit(1)
    \/ fail(1)

SpecTxn == Init /\ [][TxnNext]_vars

RECURSIVE SumPaymentsUpTo(_, _, _)
SumPaymentsUpTo(ps, visit_id, n) ==
    IF n = 0 THEN 0
    ELSE SumPaymentsUpTo(ps, visit_id, n - 1)
         + (IF ps[n].visit_id = visit_id THEN ps[n].amount ELSE 0)

\* The amounts of the stored Payment rows of a visit.
SumPayments(visit_id) == SumPaymentsUpTo(payments, visit_id, Len(payments))

\* Rows of the store that existed before a step and were not changed by it.
SameBalance(v, w) ==
    /\ v.paid_amount = w.paid_amount
    /\ v.remaining = w.remaining
    /\ v.payment_status = w.payment_status

\* C8: payment creation is atomic.  In every step of the store, either a
\* Payment row is added together with the update of its visit's
\* paid_amount, remaining and payment_status and of its patient's
\* total_debt and has_debt, or no payment, no visit balance and no patient
\* debt changes; a create_payment answered with an error leaves payments,
\* visits and patients as they were.
C8_PaymentAtomic ==
    [][/\ payments' /= payments =>
            /\ Len(payments') = Len(payments) + 1
            /\ SubSeq(payments', 1, Len(payments)) = payments
            /\ LET pay == payments'[Len(payments')]
                   old == visits[pay.visit_id]
                   new == visits'[pay.visit_id]
                   due == new.total_amount - new.paid_amount
               IN  /\ new.paid_amount = old.paid_amount + pay.amount
                   /\ new.remaining = (IF due > 0 THEN due ELSE 0)
                   /\ new.remaining = 0 => new.payment_status = paid
                   /\ patients'[pay.patient_id].total_debt =
                          SumRemaining(visits', pay.patient_id)
                   /\ patients'[pay.patient_id].has_debt =
                          (patients'[pay.patient_id].total_debt > 0)
       /\ payments' = payments =>
            /\ \A i \in DOMAIN visits : SameBalance(visits[i], visits'[i])
            /\ \A i \in DOMAIN patients : patients'[i] = patients[i]
       /\ (resp'.op = "create_payment" /\ resp'.code /= OK) =>
            /\ payments' = payments
            /\ visits' = visits
            /\ patients' = patients]_vars

\* A payment on a priced visit that failed on the way, with the store
\* still holding the earlier payment on that visit in full and nothing of
\* the failed one.
C8_Witness ==
    /\ resp.op = "create_payment" /\ resp.code = SERVER_ERROR
    /\ Len(payments) = 1
    /\ resp.args[2] = payments[1].visit_id
    /\ visits[payments[1].visit_id].total_amount /= None
    /\ visits[payments[1].visit_id].paid_amount = payments[1].amount
    /\ AllIdle

(***************************************************************************)
(* SpecRace: two requests at the same time.                                *)
(***************************************************************************)
RaceAmounts == {30, 100}
RaceDates == {0, 15}

RaceNext ==
    \/ AllIdle /\ create_patient
    \/ AllIdle /\ create_visit_by_manager(2, 1, 3, None, None, 60, 100)
    \/ \E s \in Sessions, v \in DOMAIN visits, a \in RaceAmounts :
          pay_get_visit(s, 2, v, 1, a)
    \/ \E s \in Sessions : pay_get_patient(s)
    \/ \E s \in Sessions : pay_flush(s)
    \/ \E s \in Sessions : pay_commit(s)
    \/ \E s \in Sessions, t \in RaceDates :
          visit_by_dentist_check(s, 3, 1, None, None, t)
    \/ \E s \in Sessions, t \in RaceDates :
          visit_by_manager_check(s, 2, 1, 3, None, None, t, None)
    \/ \E s \in Sessions : visit_commit(s)

SpecRace == Init /\ [][RaceNext]_vars

\* C9: no payment is lost.  Once every request has committed, each visit's
\* paid_amount is what it was before them (0 at creation) plus the amounts
\* of all committed Payment rows of the visit.
C9_NoLostPayment ==
    AllIdle =>
        \A i \in DOMAIN visits : visits[i].paid_amount = SumPayments(i)

\* C10: of two concurrent creations for the same dentist with overlapping
\* intervals at most one is committed: the stored visits of a dentist
\* never overlap.
C10_NoOverlapUnderRace ==
    \A i \in DOMAIN visits : \A j \in DOMAIN visits \ {i} :
        visits[i].dentist_id = visits[j].dentist_id
            => \/ VisitEnd(visits[i]) <= VisitStart(visits[j])
               \/ VisitEnd(visits[j]) <= VisitStart(visits[i])

(***************************************************************************)
(* SpecErrors: requests that are turned away.  Two dentists, each with     *)
(* visits of their own; completions with bodies the schema refuses and on  *)
(* visits of the other dentist; status updates by every role.              *)
(***************************************************************************)
ErrorTotals == {-5, 0}
ErrorDurations == {None, 60}
ErrorDates == {0}

ErrorsNext ==
    \/ create_patient
    \/ \E c \in Dentists, p \in DOMAIN patients, t \in ErrorDates :
          create_visit_by_dentist(c, p, None, None, t)
    \/ \E c \in Dentists, v \in DOMAIN visits, a \in ErrorTotals, du \in ErrorDurations :
          complete_visit_by_dentist(c, v, a, du)
    \/ \E c \in UserIds, v \in DOMAIN visits, st \in VisitStatus :
          update_visit_status(c, v, st)

SpecErrors == Init /\ [][ErrorsNext]_vars

\* C11: complete_visit_by_dentist with a negative total_amount is answered
\* with the validation error and the store is left as it was, the visit's
\* duration_minutes included when a valid new duration came in the same
\* request; with total_amount = 0 on a visit the dentist created it is
\* answered OK and the visit's payment_status is unpaid.
C11_NegativeTotalRejected ==
    [][LET r == resp' IN
       r.op = "complete_visit_by_dentist" /\ users[r.args[1]].role = dentist =>
           /\ r.args[3] < 0 =>
                 /\ r.code = UNPROCESSABLE
                 /\ visits' = visits
                 /\ patients' = patients
                 /\ payments' = payments
           /\ (/\ r.args[3] = 0
               /\ r.args[2] \in DOMAIN visits
               /\ visits[r.args[2]].dentist_id = r.args[1]) =>
                 /\ r.code = OK
                 /\ visits'[r.args[2]].total_amount = 0
                 /\ visits'[r.args[2]].payment_status = unpaid]_vars

\* Dentist 3 sent total_amount = -5 with duration_minutes = 60 for a visit
\* of theirs that has no duration: refused, the duration still not set;
\* another visit was completed with total_amount = 0.
C11_Witness ==
    /\ resp.op = "complete_visit_by_dentist"
    /\ resp.args[1] = 3 /\ resp.args[3] < 0 /\ resp.args[4] = 60
    /\ resp.code = UNPROCESSABLE
    /\ visits[resp.args[2]].dentist_id = 3
    /\ visits[resp.args[2]].duration_minutes = None
    /\ \E i \in DOMAIN visits :
          /\ visits[i].visit_status = completed
          /\ visits[i].total_amount = 0
          /\ visits[i].payment_status = unpaid

\* C14: a dentist who completes, or sets the status of, a visit whose
\* dentist_id is not their id is answered forbidden and the visit is left
\* as it was; a manager or an admin sets the status of any visit.
C14_ForeignVisitForbidden ==
    [][LET r == resp'
           c == r.args[1]
           v == r.args[2]
       IN
       /\ (/\ r.op = "complete_visit_by_dentist"
           /\ users[c].role = dentist
           /\ r.args[3] >= 0 /\ (r.args[4] = None \/ r.args[4] > 0)
           /\ v \in DOMAIN visits
           /\ visits[v].dentist_id /= c) =>
              r.code = FORBIDDEN /\ visits' = visits
       /\ (r.op = "update_visit_status" /\ v \in DOMAIN visits) =>
              IF users[c].role = dentist /\ visits[v].dentist_id /= c
              THEN r.code = FORBIDDEN /\ visits' = visits
              ELSE /\ r.code = OK
                   /\ visits' = [visits EXCEPT ![v].visit_status = r.args[3]]]_vars

\* Dentist 4 tried to set the status of a visit of dentist 3 that a
\* manager or admin had put in progress: forbidden, the status stays.
C14_Witness ==
    /\ resp.op = "update_visit_status" /\ resp.code = FORBIDDEN
    /\ resp.args[1] = 4 /\ resp.args[3] = completed
    /\ visits[resp.args[2]].dentist_id = 3
    /\ visits[resp.args[2]].visit_status = in_progress


(***************************************************************************)
(* The ledger (Spec) again: what a payment request may carry, what it      *)
(* leaves behind, what a completion leaves behind.                         *)
(***************************************************************************)
\* C12: a create_payment with a negative amount is answered with the
\* validation error and leaves the payments, the visits and the patients
\* as they were; no step makes the paid_amount of a visit smaller.
C12_NegativePaymentRejected ==
    [][/\ (resp'.op = "create_payment" /\ resp'.args[4] < 0) =>
              /\ resp'.code = UNPROCESSABLE
              /\ payments' = payments
              /\ visits' = visits
              /\ patients' = patients
       /\ \A i \in DOMAIN visits :
              visits'[i].paid_amount >= visits[i].paid_amount]_vars

\* C16: a stored Payment row is never changed and never removed, whatever
\* is requested afterwards: every step keeps the rows there are, as they
\* are, and can only add rows.
C16_PaymentsImmutable ==
    [][/\ Len(payments') >= Len(payments)
       /\ \A i \in DOMAIN payments : payments'[i] = payments[i]]_vars

\* Two payments on the same visit are stored as two rows with their own
\* amounts, and the visit was completed after them.
C16_Witness ==
    /\ Len(payments) = 2
    /\ payments[1].visit_id = payments[2].visit_id
    /\ payments[1].amount = 30 /\ payments[2].amount = 100
    /\ resp.op = "complete_visit_by_dentist" /\ resp.code = OK
    /\ resp.args[2] = payments[1].visit_id

\* C18: right after a successful create_payment naming patient p,
\* p.total_debt is the sum of remaining over the visits of p as they are
\* after the payment (the paid visit with its new remaining), and
\* p.has_debt says whether that sum is positive.
C18_DebtAfterPayment ==
    [][(resp'.op = "create_payment" /\ resp'.code = OK) =>
        LET p == resp'.args[3]
            due == SumRemaining(visits', p)
        IN  /\ patients'[p].total_debt = due
            /\ patients'[p].has_debt = (due > 0)]_vars

\* A payment of 30 on one of two visits of 100 of the same patient: the
\* patient owes 70 + 100.
C18_Witness ==
    /\ resp.op = "create_payment" /\ resp.code = OK /\ resp.args[4] = 30
    /\ Len(visits) = 2
    /\ \A i \in DOMAIN visits :
          visits[i].patient_id = resp.args[3] /\ visits[i].total_amount = 100
    /\ visits[resp.args[2]].remaining = 70
    /\ patients[resp.args[3]].total_debt = 170
    /\ patients[resp.args[3]].has_debt

\* C19: for the pair (total_amount, paid_amount) of a visit with a total
\* that is not negative, 0 included, the recomputation of
\* complete_visit_by_dentist and that of create_payment give the same
\* remaining and the same payment_status.
C19_SameRecomputation ==
    \A i \in DOMAIN visits :
        LET v == visits[i] IN
        (v.total_amount /= None /\ v.total_amount >= 0) =>
            LET byComplete == ApplyComplete(v, v.total_amount, None)
                byPayment == ApplyPayment(v, 0)
            IN  /\ byComplete.paid_amount = byPayment.paid_amount
                /\ byComplete.remaining = byPayment.remaining
                /\ byComplete.payment_status = byPayment.payment_status

\* C20: a successful complete_visit_by_dentist ends with the visit
\* completed and its total_amount the value sent, whatever its status and
\* total were before, and with its paid_amount as it was.
C20_CompletionSetsTotal ==
    [][(resp'.op = "complete_visit_by_dentist" /\ resp'.code = OK) =>
        LET v == resp'.args[2] IN
        /\ visits'[v].visit_status = completed
        /\ visits'[v].total_amount = resp'.args[3]
        /\ visits'[v].paid_amount = visits[v].paid_amount]_vars

\* A visit that had 30 paid against another total was completed with
\* total_amount = 0.
C20_Witness ==
    /\ resp.op = "complete_visit_by_dentist" /\ resp.code = OK
    /\ resp.args[3] = 0
    /\ LET v == visits[resp.args[2]] IN
        /\ v.visit_status = completed
        /\ v.total_amount = 0
        /\ v.paid_amount = 30


(***************************************************************************)
(* SpecAuth: registrations, two at a time, with phones and emails that     *)
(* are free, taken by the staff, or asked for by both.                     *)
(***************************************************************************)
AuthPhones == {1, 5, 6}
AuthEmails == {1, 5, 6}
AuthRoles == {manager, dentist}

AuthNext ==
    \/ \E s \in Sessions, ph \in AuthPhones, em \in AuthEmails, ro \in AuthRoles :
          reg_check(s, ph, em, ro)
    \/ \E s \in Sessions : reg_commit(s)

SpecAuth == Init /\ [][AuthNext]_vars

\* C13: a registration whose phone is that of a stored user is answered
\* with the conflict error and stores no user; and whatever registrations
\* ran, one after the other or interleaved, no two stored users have the
\* same phone or the same email.
C13_DuplicatePhoneConflict ==
    [][/\ (/\ resp' /= resp /\ resp'.op = "register_user"
           /\ \E i \in DOMAIN users : users[i].phone = resp'.args[1]) =>
              resp'.code = CONFLICT /\ users' = users
       /\ \A i \in DOMAIN users' : \A j \in DOMAIN users' :
              i /= j => /\ users'[i].phone /= users'[j].phone
                        /\ users'[i].email /= users'[j].email]_vars


(***************************************************************************)
(* SpecFrame: every operation that writes the store, one request at a      *)
(* time: patients, visits by the manager and by the dentist, completions,  *)
(* status updates, payments, registrations.                                *)
(***************************************************************************)
FrameTotals == {None, 100}
FrameAmounts == {30}
FramePhones == {1, 5}

FrameNext ==
    \/ create_patient
    \/ \E p \in DOMAIN patients, a \in FrameTotals :
          create_visit_by_manager(2, p, 3, None, None, 0, a)
    \/ \E p \in DOMAIN patients :
          create_visit_by_dentist(3, p, None, None, 30)
    \/ \E v \in DOMAIN visits, a \in {0, 100} :
          complete_visit_by_dentist(3, v, a, None)
    \/ \E v \in DOMAIN visits :
          update_visit_status(2, v, in_progress)
    \/ \E v \in DOMAIN visits, p \in DOMAIN patients, a \in FrameAmounts :
          create_payment(2, v, p, a)
    \/ \E ph \in FramePhones :
          register_user(ph, ph, dentist)

SpecFrame == Init /\ [][FrameNext]_vars

\* The balance columns of a visit row and of a patient row.
VisitBalance(v) == <<v.paid_amount, v.remaining, v.payment_status>>
PatientBalance(p) == <<p.total_debt, p.has_debt>>

\* C15 as stated: a step of any operation other than create_payment leaves
\* paid_amount, remaining and payment_status of every stored visit and
\* total_debt and has_debt of every patient as they were.
C15_OnlyPaymentChangesBalance ==
    [][resp'.op /= "create_payment" =>
        /\ \A i \in DOMAIN visits :
              VisitBalance(visits'[i]) = VisitBalance(visits[i])
        /\ \A i \in DOMAIN patients :
              PatientBalance(patients'[i]) = PatientBalance(patients[i])]_vars

\* C15, amended: a step of an operation other than create_payment and
\* complete_visit_by_dentist leaves the balance columns of every stored
\* visit and patient as they were; a completion leaves every paid_amount,
\* every patient and every other visit as they were (it recomputes the
\* remaining and the payment_status of the completed visit only).
C15_PaymentOrCompletionChangesBalance ==
    [][resp'.op /= "create_payment" =>
        /\ \A i \in DOMAIN patients :
              PatientBalance(patients'[i]) = PatientBalance(patients[i])
        /\ \A i \in DOMAIN visits :
              /\ visits'[i].paid_amount = visits[i].paid_amount
              /\ (resp'.op /= "complete_visit_by_dentist" \/ i /= resp'.args[2])
                   => VisitBalance(visits'[i]) = VisitBalance(visits[i])]_vars

\* A visit of 100 with 30 paid was completed with total_amount = 0: its
\* remaining went from 70 to 0 while its patient is still recorded as
\* owing 70; a user was registered meanwhile.
C15_Witness ==
    /\ resp.op = "complete_visit_by_dentist" /\ resp.code = OK
    /\ resp.args[3] = 0
    /\ Len(users) = Len(Staff) + 1
    /\ LET v == visits[resp.args[2]] IN
        /\ v.paid_amount = 30
        /\ v.remaining = 0
        /\ Len(patients) = 1
        /\ patients[v.patient_id].total_debt = 70


(***************************************************************************)
(* SpecDashboard: the admin's and the dentists' dashboards over incomes    *)
(* of the previous and of the current period that are negative, 0 and      *)
(* positive.                                                               *)
(***************************************************************************)
DashIncomes == {-50, 0, 50, 100}

DashboardNext ==
    \/ \E c \in {1, 3}, curr \in DashIncomes, prev \in DashIncomes :
          admin_dashboard_read(1, c, curr, prev)
    \/ \E c \in {1, 3}, curr \in DashIncomes, prev \in DashIncomes, l \in BOOLEAN :
          dentist_dashboard_read(1, c, curr, prev, l)
    \/ admin_dashboard_reply(1)
    \/ dentist_dashboard_reply(1)

SpecDashboard == Init /\ [][DashboardNext]_vars

\* C17: the percent change a dashboard returns is 100 when the income of
\* the previous period is 0 and that of the current one is positive, 0
\* when the previous is 0 and the current is not positive, and
\* (curr - prev) / prev * 100 otherwise; the admin's and the dentist's
\* dashboard follow the same rule.
C17_PercentChangeRule ==
    [][\A s \in Sessions :
        (/\ sess[s].pc = "read" /\ sess'[s].pc = "idle"
         /\ sess[s].op \in {"admin_dashboard", "dentist_dashboard"}
         /\ resp'.code = OK) =>
            LET prev == sess[s].pending.prev_month_income
                curr == sess[s].pending.income_month
                pct == resp'.body.percentChange
            IN  /\ resp'.op = sess[s].op
                /\ pct.den /= 0
                /\ IF prev = 0 /\ curr > 0 THEN pct.num = 100 * pct.den
                   ELSE IF prev = 0 THEN pct.num = 0
                   ELSE pct.num * prev = (curr - prev) * 100 * pct.den]_vars

\* The dentist's dashboard answered 100 percent for an income of 50 after
\* a period without income.
C17_Witness ==
    /\ resp.op = "dentist_dashboard" /\ resp.code = OK
    /\ resp.body.incomeMonth = 50
    /\ resp.body.percentChange = Rat(100)


(***************************************************************************)
(* The diaries (SpecSchedule) again: what a dentist's own creation stores. *)
(***************************************************************************)
\* C21: every visit create_visit_by_dentist stores has the caller's id as
\* dentist_id, no total_amount, paid_amount = 0, remaining = 0,
\* payment_status = unpaid and visit_status = scheduled, whatever the body
\* of the request.
C21_DentistCreationDefaults ==
    [][(resp'.op = "create_visit_by_dentist" /\ resp'.code = OK) =>
        /\ Len(visits') = Len(visits) + 1
        /\ LET v == visits'[Len(visits')] IN
            /\ v.dentist_id = resp'.args[1]
            /\ v.total_amount = None
            /\ v.paid_amount = 0
            /\ v.remaining = 0
            /\ v.payment_status = unpaid
            /\ v.visit_status = scheduled]_vars

\* Dentist 4 stored a visit with a procedure and a duration of their own
\* choice next to a visit dentist 3 has completed.
C21_Witness ==
    /\ resp.op = "create_visit_by_dentist" /\ resp.code = OK
    /\ resp.args[1] = 4 /\ resp.args[3] = 1 /\ resp.args[4] = 15
    /\ Len(visits) = 2
    /\ visits[1].dentist_id = 3 /\ visits[1].visit_status = completed
    /\ visits[2].dentist_id = 4 /\ visits[2].total_amount = None
    /\ visits[2].visit_status = scheduled


(***************************************************************************)
(* SpecDuration: one dentist's diary with every kind of duration: given    *)
(* and positive, given and not positive, not given; with a procedure that  *)
(* has a duration, has none, has one that is not positive, or is not in    *)
(* the table.                                                              *)
(***************************************************************************)
DurationValues == {None, -10, 0, 50}
DurationProcedures == {None, 1, 2, 3, 9}
DurationDates == {0, 40, 47}

DurationNext ==
    \/ create_patient
    \/ \E pr \in DurationProcedures, du \in DurationValues, t \in DurationDates :
          create_visit_by_manager(2, 1, 3, pr, du, t, None)
    \/ \E pr \in DurationProcedures, du \in DurationValues, t \in DurationDates :
          create_visit_by_dentist(3, 1, pr, du, t)

SpecDuration == Init /\ [][DurationNext]_vars

C23_PaymentPatientOwnsVisit ==
    \A i \in DOMAIN payments :
        payments[i].patient_id = visits[payments[i].visit_id].patient_id

\* C24: create_payment fails with not-found only.  For a visit that
\* exists, one the dentist created and has not completed (no total_amount
\* yet) included, and a patient that exists, it is answered OK, stores
\* exactly one Payment row and adds the amount to the visit's paid_amount.
C24_PaymentFailsOnlyNotFound ==
    [][resp'.op = "create_payment" =>
        /\ resp'.code \in {OK, NOT_FOUND}
        /\ (resp'.args[2] \in DOMAIN visits /\ resp'.args[3] \in DOMAIN patients) =>
              /\ resp'.code = OK
              /\ Len(payments') = Len(payments) + 1
              /\ visits'[resp'.args[2]].paid_amount
                    = visits[resp'.args[2]].paid_amount + resp'.args[4]]_vars


====
